---- MODULE Spec2Model ----
(***************************************************************************)
(* Model of cmd/ngormgen (nebula.go): the generator that scans the struct  *)
(* declarations of one package, classifies them as Tag / Edge / neither,   *)
(* and appends the query templates of every scanned struct to a buffer     *)
(* that is formatted and written to one output file.                       *)
(*                                                                         *)
(* Text is modelled as a sequence of tokens (one-character strings for     *)
(* identifiers, longer strings for fixed template text), so that           *)
(* strings.ToLower and string concatenation are computed, not assumed.     *)
(* The walk of ast.Inspect over one file is modelled as the sequence of    *)
(* the *ast.TypeSpec and *ast.FuncDecl nodes it visits, in visiting order. *)
(* The children of a TypeSpec hold no TypeSpec or FuncDecl, so the "return *)
(* false" of genStruct prunes nothing of that sequence.                    *)
(***************************************************************************)
EXTENDS Integers, Sequences, FiniteSets, TLC

VARIABLES
    typeNames,    \* flag -type, split at ",": the allow-list (<<>> when unset)
    trimPrefix,   \* flag -trimprefix
    pkgSyntax,    \* pkg.Syntax: the parsed files of the package (the input)
    pc,           \* position of main
    files,        \* g.pkg.files
    fileIdx,      \* generate: index of the file being inspected
    nodeIdx,      \* ast.Inspect: number of nodes of that file already visited
    Structs,      \* g.Structs
    emitIdx,      \* generate: number of structs whose templates are emitted
    buf,          \* g.buf: the fragments printed so far
    fmtErr,       \* format: whether format.Source returned an error
    src,          \* main: the bytes returned by format()
    outFile,      \* the output file on disk
    warnings      \* number of log.Printf warnings reported

vars == <<typeNames, trimPrefix, pkgSyntax, pc, files, fileIdx, nodeIdx,
          Structs, emitIdx, buf, fmtErr, src, outFile, warnings>>

----------------------------------------------------------------------------
(* Bounds of the model *)

MaxFiles == 2     \* files per package
MaxDecls == 2     \* visited declaration nodes per package
MaxFields == 2    \* entries of one struct's field list
MaxReq == 2       \* names requested of a generated routine

----------------------------------------------------------------------------
(* Text *)

ToLowerChar(c) ==
    CASE c = "A" -> "a"
      [] c = "B" -> "b"
      [] c = "C" -> "c"
      [] c = "D" -> "d"
      [] c = "I" -> "i"
      [] c = "T" -> "t"
      [] c = "X" -> "x"
      [] OTHER -> c

\* strings.ToLower
ToLower(s) == IF s = <<>> THEN <<>> ELSE [i \in 1..Len(s) |-> ToLowerChar(s[i])]

RECURSIVE TrimLeft(_)
TrimLeft(s) == IF s # <<>> /\ Head(s) = " " THEN TrimLeft(Tail(s)) ELSE s

RECURSIVE TrimRight(_)
TrimRight(s) ==
    IF s # <<>> /\ s[Len(s)] = " " THEN TrimRight(SubSeq(s, 1, Len(s) - 1)) ELSE s

\* strings.TrimSpace
TrimSpace(s) == TrimRight(TrimLeft(s))

RECURSIVE Concat(_)
Concat(ss) == IF ss = <<>> THEN <<>> ELSE Head(ss) \o Concat(Tail(ss))

POTYPE_TAG == "Tag"
POTYPE_EDGE == "Edge"

IDFIELD ==
    [name |-> <<"I", "d">>, nickname |-> <<"i", "d">>, typeStr |-> "int64",
     comment |-> <<>>, isIndex |-> FALSE, otherIndexFields |-> <<>>]

----------------------------------------------------------------------------
(* Model extraction: File.allowTypeName, File.genStruct *)

\* reflect.StructTag(...).Lookup("idx") of one ast.Field: <<value, ok>>
LookupIdx(field) ==
    IF field.tag.hasIdx THEN <<field.tag.idx, TRUE>> ELSE <<<<>>, FALSE>>

\* the Field values one ast.Field of type *ast.Ident contributes, one per name
RECURSIVE identFields(_, _)
identFields(field, names) ==
    IF names = <<>> THEN <<>>
    ELSE LET name == Head(names)
             fi == [name |-> name,
                    nickname |-> ToLower(name),
                    typeStr |-> field.type.name,
                    comment |-> TrimSpace(field.comment),
                    isIndex |-> IF field.hasTag THEN LookupIdx(field)[2] ELSE FALSE,
                    otherIndexFields |->
                        IF field.hasTag THEN LookupIdx(field)[1] ELSE <<>>]
         IN <<fi>> \o identFields(field, Tail(names))

\* one iteration of "for _, field := range st.Fields.List"
addField(stru, field) ==
    CASE field.type.kind = "Ident" ->
            [stru EXCEPT !.fields = @ \o identFields(field, field.names)]
      [] field.type.kind \in {"Selector", "StarSelector"} ->
            IF field.type.name = POTYPE_TAG THEN [stru EXCEPT !.isTag = TRUE]
            ELSE IF field.type.name = POTYPE_EDGE THEN [stru EXCEPT !.isEdge = TRUE]
            ELSE stru
      [] OTHER -> stru

RECURSIVE addFields(_, _)
addFields(stru, list) ==
    IF list = <<>> THEN stru ELSE addFields(addField(stru, Head(list)), Tail(list))

\* the Struct built for a TypeSpec whose type is a struct type
newStruct(node) ==
    addFields([name |-> node.name, nickname |-> ToLower(node.name),
               fields |-> <<>>, isTag |-> FALSE, isEdge |-> FALSE],
              node.fields)

\* File.allowTypeName
allowTypeName(f, name) == f.allowNil \/ name \in f.allowKeys

\* len(f.allowTypeNames)
allowLen(f) == IF f.allowNil THEN 0 ELSE Cardinality(f.allowKeys)

\* File.genStruct on a TypeSpec node: the File after the call
genStructFile(f, node) ==
    IF ~allowTypeName(f, node.name) THEN f
    ELSE LET g == IF node.isStruct
                  THEN [f EXCEPT !.structs = Append(@, newStruct(node))]
                  ELSE f
         IN IF allowLen(g) = 1 THEN g
            ELSE [g EXCEPT !.allowKeys = @ \ {node.name}]

\* File.genStruct panics on a FuncDecl without receiver: fd.Recv is nil
genStructPanics(node) == node.kind = "FuncDecl" /\ ~node.hasRecv

----------------------------------------------------------------------------
(* Type codec: Field.funcValue, Field.funcBindResult, Field.funcEq *)

SupportedTypes ==
    {"string", "int", "int64", "int32", "int16", "int8", "float64", "float32"}

\* a codec that lets bool through
Unsupported_BoolAccepted(f) == f.typeStr \notin (SupportedTypes \cup {"bool"})

\* Field.funcValue and Field.funcBindResult end in panic(f.typeStr + "unsupport")
\* for a field of any other type
Unsupported(f) == f.typeStr \notin SupportedTypes

\* Field.funcValue: the serialization expression of a supported field
funcValue(f, structName) ==
    LET acc == <<structName, ".">> \o f.name
    IN CASE f.typeStr = "string" -> <<"\"\\\"\" + ">> \o acc \o <<" + \"\\\"\"">>
         [] f.typeStr = "int" -> <<"strconv.Itoa(">> \o acc \o <<")">>
         [] f.typeStr = "int64" -> <<"strconv.FormatInt(">> \o acc \o <<", 10)">>
         [] f.typeStr \in {"int32", "int16", "int8"} ->
                <<"strconv.FormatInt(int64(">> \o acc \o <<"), 10)">>
         [] f.typeStr = "float64" ->
                <<"strconv.FormatFloat(">> \o acc \o <<", 'E', -1, 64)">>
         [] f.typeStr = "float32" ->
                <<"strconv.FormatFloat(float64(">> \o acc \o <<"), 'E', -1, 32)">>
         [] OTHER -> <<"panic(", f.typeStr, "unsupport)">>

\* Field.funcBindResult: the column read and the assignment of one field
funcBindResultField(f, struct_name, prefix) ==
    LET set == IF f.nickname = IDFIELD.nickname
               THEN <<struct_name, ".SetId(f)">>
               ELSE <<struct_name, ".">> \o f.name \o <<" = ", f.typeStr, "(f)">>
        val == CASE f.typeStr = "string" -> "AsString()"
                 [] f.typeStr \in {"int", "int64", "int32", "int16", "int8"} -> "AsInt()"
                 [] f.typeStr \in {"float64", "float32"} -> "AsFloat()"
                 [] OTHER -> "panic"
    IN <<"record.GetValueByColName(\"">> \o prefix \o f.nickname
         \o <<"\")", "val.", val>> \o set

\* Field.funcEq
funcEq(f, prefix, structName, nqlVarName) ==
    IF f.name = IDFIELD.name
    THEN <<"id(", nqlVarName, ")==">> \o funcValue(f, structName)
    ELSE <<"\"">> \o prefix \o f.nickname \o <<"==\"+">> \o funcValue(f, structName)

----------------------------------------------------------------------------
(* Template emitter.  Every func* of the Generator appends one fragment to *)
(* the buffer (none when its guard returns early): op is the emitting      *)
(* function, method the generated routine, entity the struct it is         *)
(* generated for, items the per-field parts in emission order (for a       *)
(* dispatch chain: the compared name and the text of the branch), extra    *)
(* the parts of a second loop.                                             *)

Item(key, val) == [key |-> key, val |-> val]

Frag(op, method, entity, items, extra) ==
    [op |-> op, method |-> method, entity |-> entity, items |-> items,
     extra |-> extra, layout |-> "raw"]

NoEntity == <<>>

\* the items of "for i, f := range s.fields": one per field, vals[i] its text
PerField(fields, vals) ==
    IF fields = <<>> THEN <<>>
    ELSE [i \in 1..Len(fields) |-> Item(fields[i].nickname, vals[i])]

funcAllFields(s) ==
    LET none(f) == <<>>
    IN <<Frag("funcAllFields", "AllFields", s.name, PerField(s.fields,
                [i \in 1..Len(s.fields) |-> none(s.fields[i])]), <<>>)>>

funcAllFieldsWithId(s) ==
    LET none(f) == <<>>
    IN <<Frag("funcAllFieldsWithId", "AllFieldsWithId", s.name,
              PerField(s.fields,
                [i \in 1..Len(s.fields) |-> none(s.fields[i])])
              \o <<Item(<<"i", "d">>, <<>>)>>, <<>>)>>

funcTagName(s) ==
    IF ~s.isTag THEN <<>>
    ELSE <<Frag("funcTagName", "TagName", s.name, <<Item(s.nickname, <<>>)>>, <<>>)>>

funcEdgeName(s) ==
    IF ~s.isEdge THEN <<>>
    ELSE <<Frag("funcEdgeName", "EdgeName", s.name, <<Item(s.nickname, <<>>)>>, <<>>)>>

funcNqlNameValues(s) ==
    LET val(f) == <<"values = append(values, \"">> \o f.nickname
                    \o <<"\" + split + ">> \o funcValue(f, "m")
    IN <<Frag("funcNqlNameValues", "NqlNameValues", s.name, PerField(s.fields,
                [i \in 1..Len(s.fields) |-> val(s.fields[i])]), <<>>)>>

funcNqlValues(s) ==
    LET val(f) == funcValue(f, "m")
    IN <<Frag("funcNqlValues", "NqlValues", s.name, PerField(s.fields,
                [i \in 1..Len(s.fields) |-> val(s.fields[i])]), <<>>)>>

funcNqlNames(s) ==
    <<Frag("funcNqlNames", "NqlNames", s.name, <<>>, <<>>)>>

funcNqlBind(s) ==
    LET val(f) == <<"structName + \".">> \o s.nickname \o <<".">> \o f.nickname
                    \o <<" as ">> \o s.nickname \o <<"_">> \o f.nickname
    IN <<Frag("funcNqlBind", "NqlBind", s.name, PerField(s.fields,
                [i \in 1..Len(s.fields) |-> val(s.fields[i])]), <<>>)>>

\* the column definitions of CREATE TAG / CREATE EDGE
Columns(s) ==
    LET val(f) == <<f.typeStr, "COMMENT '">> \o f.comment \o <<"'">>
    IN PerField(s.fields,
                [i \in 1..Len(s.fields) |-> val(s.fields[i])])

\* the second loop of CreateTag: one index statement per field with isIndex
RECURSIVE IndexStatements(_)
IndexStatements(fields) ==
    IF fields = <<>> THEN <<>>
    ELSE LET f == Head(fields)
         IN (IF f.isIndex
             THEN <<Item(<<"idx_">> \o f.nickname, f.otherIndexFields)>>
             ELSE <<>>) \o IndexStatements(Tail(fields))

CreateTag(s) ==
    IF ~s.isTag THEN <<>>
    ELSE <<Frag("CreateTag", "Create", s.name, Columns(s), IndexStatements(s.fields))>>

CreateEdge(s) ==
    IF ~s.isEdge THEN <<>>
    ELSE <<Frag("CreateEdge", "Create", s.name, Columns(s), <<>>)>>

funcInsertTag(s) ==
    IF ~s.isTag THEN <<>>
    ELSE <<Frag("funcInsertTag", "Insert", s.name, <<>>, <<>>)>>

funcInsertEdge(s) ==
    IF ~s.isEdge THEN <<>>
    ELSE <<Frag("funcInsertEdge", "Insert", s.name, <<>>, <<>>)>>

funcBindRecord(s) ==
    LET val(f) == funcBindResultField(f, "m", s.nickname \o <<"_">>)
    IN <<Frag("funcBindRecord", "BindRecord", s.name, PerField(s.fields,
                [i \in 1..Len(s.fields) |-> val(s.fields[i])]),
              IF s.isTag
              THEN <<Item(IDFIELD.nickname,
                          funcBindResultField(IDFIELD, "m", s.nickname \o <<"_">>))>>
              ELSE <<>>)>>

funcBindResult(s) ==
    <<Frag("funcBindResult", "BindResult", s.name, <<>>, <<>>)>>

funcConditionItem(s) ==
    LET val(f) == funcEq(f, <<"v.">> \o s.nickname \o <<".">>, "m", "v")
    IN <<Frag("funcConditionItem", "ConditionItem", s.name, PerField(s.fields,
                [i \in 1..Len(s.fields) |-> val(s.fields[i])]), <<>>)>>

funcBindOne(s) ==
    <<Frag("funcBindOne", "BindOne", s.name, <<>>, <<>>)>>

\* the projected columns of One and List
Projection(s) ==
    LET val(f) == <<",v.">> \o s.nickname \o <<".">> \o f.nickname \o <<" as ">>
                    \o s.nickname \o <<"_">> \o f.nickname
    IN PerField(s.fields,
                [i \in 1..Len(s.fields) |-> val(s.fields[i])])

\* where = " WHERE " + strings.Join(m.ConditionItem(fields...), ",")
WhereClause == <<Item(<<" WHERE ">>, <<",">>)>>

funcOne(s) ==
    <<Frag("funcOne", "One", s.name, Projection(s), WhereClause)>>

funcList(s) ==
    <<Frag("funcList", "List", s.name, Projection(s), WhereClause)>>

funcRemoveTag(s) ==
    IF ~s.isTag THEN <<>>
    ELSE <<Frag("funcRemoveTag", "RemoveById", s.name, <<>>, <<>>)>>

funcRemoveEdge(s) ==
    IF ~s.isEdge THEN <<>>
    ELSE <<Frag("funcRemoveEdge", "RemoveById", s.name, <<>>, <<>>)>>

\* a Create that lists the structs last to first
RECURSIVE CreateCalls_Reversed(_)
CreateCalls_Reversed(structs) ==
    IF structs = <<>> THEN <<>>
    ELSE LET s == Head(structs)
         IN CreateCalls_Reversed(Tail(structs))
            \o (IF s.isTag \/ s.isEdge THEN <<Item(s.name, <<".Create(session)">>)>>
                ELSE <<>>)

\* Generator.Create: the package-level routine
RECURSIVE CreateCalls(_)
CreateCalls(structs) ==
    IF structs = <<>> THEN <<>>
    ELSE LET s == Head(structs)
         IN (IF s.isTag \/ s.isEdge THEN <<Item(s.name, <<".Create(session)">>)>>
             ELSE <<>>) \o CreateCalls(Tail(structs))

Create(structs) ==
    <<Frag("Create", "Create", NoEntity, CreateCalls(structs), <<>>)>>

checkResultSet == <<Frag("checkResultSet", "checkResultSet", NoEntity, <<>>, <<>>)>>

Header == <<Frag("main", "header", NoEntity, <<>>, <<>>)>>

\* index of the first field whose type the codec rejects, 0 when there is none
FirstUnsupported(s) ==
    IF \E i \in 1..Len(s.fields) : Unsupported(s.fields[i])
    THEN CHOOSE i \in 1..Len(s.fields) :
            /\ Unsupported(s.fields[i])
            /\ \A j \in 1..(i - 1) : ~Unsupported(s.fields[j])
    ELSE 0

\* one iteration of the loop of generate over g.Structs, no field rejected
emitStruct(s) ==
    funcAllFields(s) \o funcAllFieldsWithId(s) \o funcTagName(s) \o funcEdgeName(s)
    \o funcNqlNameValues(s) \o funcNqlValues(s) \o funcNqlNames(s) \o funcNqlBind(s)
    \o CreateTag(s) \o CreateEdge(s)
    \o funcInsertTag(s) \o funcInsertEdge(s)
    \o funcBindRecord(s) \o funcBindResult(s) \o funcConditionItem(s)
    \o funcBindOne(s) \o funcOne(s) \o funcList(s)
    \o funcRemoveTag(s) \o funcRemoveEdge(s)

\* what the same iteration has printed when funcValue panics in
\* funcNqlNameValues, the first caller of the codec, at field k
emitStructPanic(s, k) ==
    LET t == [s EXCEPT !.fields = SubSeq(s.fields, 1, k - 1)]
    IN funcAllFields(s) \o funcAllFieldsWithId(s) \o funcTagName(s) \o funcEdgeName(s)
       \o <<[funcNqlNameValues(t)[1] EXCEPT !.layout = "truncated"]>>

----------------------------------------------------------------------------
(* Output assembler: Generator.format and the formatting collaborator *)

\* format.Source on a buffer it accepts: same fragments, canonical layout
gofmt(b) == IF b = <<>> THEN <<>> ELSE [i \in 1..Len(b) |-> [b[i] EXCEPT !.layout = "gofmt"]]

\* a format that returns the (nil) result of the failed format.Source
format_ReturnsSrcOnError(b, ok) == IF ok THEN gofmt(b) ELSE <<>>

\* Generator.format: ok says whether format.Source returned no error
format(b, ok) == IF ok THEN gofmt(b) ELSE b

----------------------------------------------------------------------------
(* Generator.addPackage *)

newFile(syntax, prefix) ==
    [nodes |-> syntax.nodes, allowNil |-> TRUE, allowKeys |-> {},
     structs |-> <<>>, trimPrefix |-> prefix]

RECURSIVE addPackage(_, _)
addPackage(syntax, prefix) ==
    IF syntax = <<>> THEN <<>>
    ELSE (IF Head(syntax).generated THEN <<>> ELSE <<newFile(Head(syntax), prefix)>>)
         \o addPackage(Tail(syntax), prefix)

\* generate: "Set the state for this run of the walker"
setAllow(f, allowTypeNames) ==
    IF Len(allowTypeNames) > 0
    THEN [f EXCEPT !.allowNil = FALSE,
                   !.allowKeys = {allowTypeNames[i] : i \in 1..Len(allowTypeNames)}]
    ELSE f

----------------------------------------------------------------------------
(* The run of main *)

NoFile == [written |-> FALSE, bytes |-> <<>>]

InitRun ==
    /\ pc = "parse"
    /\ files = <<>>
    /\ fileIdx = 0
    /\ nodeIdx = 0
    /\ Structs = <<>>
    /\ emitIdx = 0
    /\ buf = <<>>
    /\ fmtErr = FALSE
    /\ src = <<>>
    /\ outFile = NoFile
    /\ warnings = 0

\* main: g.parsePackage(args, tags)
ParsePackage ==
    /\ pc = "parse"
    /\ files' = addPackage(pkgSyntax, trimPrefix)
    /\ pc' = "header"
    /\ UNCHANGED <<typeNames, trimPrefix, pkgSyntax, fileIdx, nodeIdx, Structs,
                   emitIdx, buf, fmtErr, src, outFile, warnings>>

\* main: "Print the header and package clause"
PrintHeader ==
    /\ pc = "header"
    /\ buf' = buf \o Header
    /\ pc' = "generate"
    /\ UNCHANGED <<typeNames, trimPrefix, pkgSyntax, files, fileIdx, nodeIdx,
                   Structs, emitIdx, fmtErr, src, outFile, warnings>>

\* generate: the head of one iteration of "for _, file := range g.pkg.files"
BeginFile ==
    /\ pc = "generate"
    /\ fileIdx < Len(files)
    /\ fileIdx' = fileIdx + 1
    /\ files' = [files EXCEPT ![fileIdx + 1] = setAllow(@, typeNames)]
    /\ nodeIdx' = 0
    /\ pc' = "inspect"
    /\ UNCHANGED <<typeNames, trimPrefix, pkgSyntax, Structs, emitIdx, buf, fmtErr, src,
                   outFile, warnings>>

\* ast.Inspect calls File.genStruct on the next node of the file
GenStruct ==
    /\ pc = "inspect"
    /\ nodeIdx < Len(files[fileIdx].nodes)
    /\ LET node == files[fileIdx].nodes[nodeIdx + 1]
       IN IF genStructPanics(node)
          THEN /\ pc' = "panic"
               /\ UNCHANGED <<files, nodeIdx>>
          ELSE /\ files' = [files EXCEPT ![fileIdx] =
                                IF node.kind = "TypeSpec" THEN genStructFile(@, node)
                                ELSE @]
               /\ nodeIdx' = nodeIdx + 1
               /\ pc' = pc
    /\ UNCHANGED <<typeNames, trimPrefix, pkgSyntax, fileIdx, Structs, emitIdx,
                   buf, fmtErr, src, outFile, warnings>>

\* generate: the file is walked; its structs are appended to g.Structs
EndFile ==
    /\ pc = "inspect"
    /\ nodeIdx = Len(files[fileIdx].nodes)
    /\ Structs' = Structs \o files[fileIdx].structs
    /\ pc' = "generate"
    /\ UNCHANGED <<typeNames, trimPrefix, pkgSyntax, files, fileIdx, nodeIdx,
                   emitIdx, buf, fmtErr, src, outFile, warnings>>

\* generate: g.checkResultSet(), after the last file
PrintCheckResultSet ==
    /\ pc = "generate"
    /\ fileIdx = Len(files)
    /\ buf' = buf \o checkResultSet
    /\ emitIdx' = 0
    /\ pc' = "emit"
    /\ UNCHANGED <<typeNames, trimPrefix, pkgSyntax, files, fileIdx, nodeIdx,
                   Structs, fmtErr, src, outFile, warnings>>

\* generate: one iteration of "for _, s := range g.Structs"
EmitStruct ==
    /\ pc = "emit"
    /\ emitIdx < Len(Structs)
    /\ LET s == Structs[emitIdx + 1]
           k == FirstUnsupported(s)
       IN IF k # 0
          THEN /\ buf' = buf \o emitStructPanic(s, k)
               /\ pc' = "panic"
               /\ emitIdx' = emitIdx
          ELSE /\ buf' = buf \o emitStruct(s)
               /\ pc' = pc
               /\ emitIdx' = emitIdx + 1
    /\ UNCHANGED <<typeNames, trimPrefix, pkgSyntax, files, fileIdx, nodeIdx,
                   Structs, fmtErr, src, outFile, warnings>>

\* generate: g.Create(), after the loop
EmitCreate ==
    /\ pc = "emit"
    /\ emitIdx = Len(Structs)
    /\ buf' = buf \o Create(Structs)
    /\ pc' = "format"
    /\ UNCHANGED <<typeNames, trimPrefix, pkgSyntax, files, fileIdx, nodeIdx,
                   Structs, emitIdx, fmtErr, src, outFile, warnings>>

\* main: src := g.format(); format.Source accepts the buffer or rejects it
Format ==
    /\ pc = "format"
    /\ \E ok \in BOOLEAN :
          /\ fmtErr' = ~ok
          /\ src' = format(buf, ok)
          /\ warnings' = IF ok THEN warnings ELSE warnings + 2
    /\ pc' = "write"
    /\ UNCHANGED <<typeNames, trimPrefix, pkgSyntax, files, fileIdx, nodeIdx,
                   Structs, emitIdx, buf, outFile>>

\* main: ioutil.WriteFile(outputName, src, 0644) and its error check; the
\* failure modelled is that of opening the file, which leaves it as it was
WriteFile ==
    /\ pc = "write"
    /\ \E ok \in BOOLEAN :
          IF ok THEN /\ outFile' = [written |-> TRUE, bytes |-> src]
                     /\ pc' = "done"
          ELSE /\ outFile' = outFile
               /\ pc' = "fatal"
    /\ UNCHANGED <<typeNames, trimPrefix, pkgSyntax, files, fileIdx, nodeIdx,
                   Structs, emitIdx, buf, fmtErr, src, warnings>>

Next ==
    \/ ParsePackage
    \/ PrintHeader
    \/ BeginFile
    \/ GenStruct
    \/ EndFile
    \/ PrintCheckResultSet
    \/ EmitStruct
    \/ EmitCreate
    \/ Format
    \/ WriteFile

----------------------------------------------------------------------------
(* Inputs: flags and packages *)

NoTag == [hasIdx |-> FALSE, idx |-> <<>>]

\* an embedded field of a package-qualified type, by value or by pointer
Embedded(kind, sel) ==
    [names |-> <<>>, type |-> [kind |-> kind, name |-> sel], hasTag |-> FALSE,
     tag |-> NoTag, comment |-> <<>>]

\* a named field whose type is an identifier, without a struct tag
Plain(name, typeStr) ==
    [names |-> <<name>>, type |-> [kind |-> "Ident", name |-> typeStr],
     hasTag |-> FALSE, tag |-> NoTag, comment |-> <<>>]

\* a named field whose type is not an identifier: `Xs []string` (Array),
\* `M map[string]string` (Map), `P *int` (StarIdent), `At time.Time` (Selector)
Typed(name, kind, typeName) ==
    [names |-> <<name>>, type |-> [kind |-> kind, name |-> typeName],
     hasTag |-> FALSE, tag |-> NoTag, comment |-> <<>>]

\* the same with the struct tag `idx:"<target>"`
Indexed(name, typeStr, target) ==
    [names |-> <<name>>, type |-> [kind |-> "Ident", name |-> typeStr],
     hasTag |-> TRUE, tag |-> [hasIdx |-> TRUE, idx |-> target],
     comment |-> <<" ", "c", " ">>]

TypeSpec(name, isStruct, fields) ==
    [kind |-> "TypeSpec", name |-> name, isStruct |-> isStruct, fields |-> fields,
     hasRecv |-> FALSE]

FuncDecl(hasRecv) ==
    [kind |-> "FuncDecl", name |-> <<>>, isStruct |-> FALSE, fields |-> <<>>,
     hasRecv |-> hasRecv]

SourceFile(nodes) == [generated |-> FALSE, nodes |-> nodes]

\* a file written by an earlier run: its first comment is "Code generated by",
\* it declares the methods and the package-level Create and checkResultSet
GeneratedFile == [generated |-> TRUE, nodes |-> <<FuncDecl(TRUE), FuncDecl(FALSE)>>]

eTag == Embedded("Selector", "Tag")
eTagPtr == Embedded("StarSelector", "Tag")
eEdge == Embedded("Selector", "Edge")
eEdgePtr == Embedded("StarSelector", "Edge")

nTA == <<"T", "A">>
nB == <<"B">>
nC == <<"C">>
nD == <<"D">>
nTa == <<"T", "a">>
nAge == <<"a", "g", "e">>
nId == <<"I", "d">>
nID == <<"I", "D">>
nOk == <<"o", "k">>

fTa == Plain(nTa, "string")
fOk == Plain(nOk, "bool")
fId == Plain(nId, "int64")
fID == Plain(nID, "int64")
fTaIdx == Indexed(nTa, "string", <<>>)
fAgeIdx == Indexed(nAge, "int32", <<"x", ",", "y">>)

nXs == <<"X", "s">>
nM == <<"M">>
nP == <<"P">>
nAt == <<"A", "t">>

fXs == Typed(nXs, "Array", "string")
fM == Typed(nM, "Map", "string")
fP == Typed(nP, "StarIdent", "int")
fAt == Typed(nAt, "Selector", "Time")

\* one entry declaring two fields: `Ta, age string`
fTaAge == [Plain(nTa, "string") EXCEPT !.names = <<nTa, nAge>>]

\* all sequences over S of length at most n
SeqsUpTo(S, n) == UNION {[1..k -> S] : k \in 0..n}

\* the files a walk of n nodes splits into, given where each file ends
Split(flat, ends) ==
    [j \in 1..Len(ends) |->
        SourceFile(SubSeq(flat, (IF j = 1 THEN 0 ELSE ends[j - 1]) + 1, ends[j]))]

\* the ways to end k files in a walk of n nodes, the last file at node n
Ends(n, k) ==
    {e \in [1..k -> 0..n] :
        /\ e[k] = n
        /\ \A j \in 1..(k - 1) : e[j] <= e[j + 1]}

\* the packages of at most MaxFiles files that hold the nodes of flat in order
PackagesOf(flat) ==
    IF Len(flat) = 0 THEN {<<>>} \cup {<<SourceFile(<<>>)>>}
    ELSE {Split(flat, e) : e \in UNION {Ends(Len(flat), k) : k \in 1..MaxFiles}}

\* the i-th declaration of a package whose declared names are all different
TypeNameAt(i) == <<nTA, nB, nC, nD>>[i]

Rename(flat) ==
    IF flat = <<>> THEN <<>>
    ELSE [i \in 1..Len(flat) |->
            IF flat[i].kind = "TypeSpec"
            THEN [flat[i] EXCEPT !.name = TypeNameAt(i)] ELSE flat[i]]

\* Spec: every declared name different, no allow-list, no prefix; the structs
\* are a Tag, a Tag by pointer, an Edge, a struct without marker, a Tag with a
\* bool field, and the package may hold the file of an earlier run
SpecNodes ==
    {TypeSpec(nTA, TRUE, <<eTag, fTa>>),
     TypeSpec(nTA, TRUE, <<eEdgePtr, fTa>>),
     TypeSpec(nTA, TRUE, <<fTa>>),
     TypeSpec(nTA, TRUE, <<eTagPtr, fOk>>),
     TypeSpec(nTA, FALSE, <<>>),
     FuncDecl(TRUE),
     FuncDecl(FALSE)}

SpecPackages ==
    LET plain == UNION {PackagesOf(Rename(flat)) : flat \in SeqsUpTo(SpecNodes, MaxDecls)}
    IN plain \cup {Append(p, GeneratedFile) : p \in {q \in plain : Len(q) < MaxFiles}}

Init ==
    /\ typeNames = <<>>
    /\ trimPrefix = <<>>
    /\ pkgSyntax \in SpecPackages
    /\ InitRun

Spec == Init /\ [][Next]_vars

\* SpecSelect: the flags vary (allow-list, prefix) and so do the declared
\* names, which may repeat: a method body may declare a type of a name the
\* package also declares
AllowLists == {<<>>, <<nTA>>, <<nTA, nB>>}
Prefixes == {<<>>, <<"T">>}

SelectNodes ==
    {TypeSpec(n, TRUE, <<eTag, fTa>>) : n \in {nTA, nB, nC}}
    \cup {TypeSpec(n, FALSE, <<>>) : n \in {nTA, nB, nC}}
    \cup {FuncDecl(TRUE)}

SelectPackages ==
    LET plain == UNION {PackagesOf(flat) : flat \in SeqsUpTo(SelectNodes, MaxDecls)}
    IN plain \cup {Append(p, GeneratedFile) : p \in {q \in plain : Len(q) < MaxFiles}}

InitSelect ==
    /\ typeNames \in AllowLists
    /\ trimPrefix \in Prefixes
    /\ pkgSyntax \in SelectPackages
    /\ InitRun

SpecSelect == InitSelect /\ [][Next]_vars

\* SpecFields: one struct declaration, every field list of at most MaxFields
\* entries over markers, supported and unsupported fields, with and without
\* an idx tag, of identifier and of other type shapes
FieldEntries ==
    {eTag, eEdgePtr, fTa, fId, fID, fTaIdx, fAgeIdx, fOk, fTaAge, fXs, fM, fP, fAt}

FieldsPackages ==
    {<<SourceFile(<<TypeSpec(nTA, TRUE, fl)>>)>> : fl \in SeqsUpTo(FieldEntries, MaxFields)}

InitFields ==
    /\ typeNames = <<>>
    /\ trimPrefix = <<>>
    /\ pkgSyntax \in FieldsPackages
    /\ InitRun

SpecFields == InitFields /\ [][Next]_vars

----------------------------------------------------------------------------
(* The generated routines, run on requested field names.  Each is the      *)
(* code its fragment stands for: a loop over the requested names around    *)
(* the if / else-if chain of the fragment's items, without a final else.   *)

\* the branch the chain takes for name f: the first item comparing equal
ChainMatch(items, f) ==
    IF \E i \in 1..Len(items) : items[i].key = f
    THEN <<items[CHOOSE i \in 1..Len(items) :
                    /\ items[i].key = f
                    /\ \A j \in 1..(i - 1) : items[j].key # f].val>>
    ELSE <<>>

\* for _, f := range fields { chain }: what the branches taken append
RECURSIVE RunChain(_, _)
RunChain(items, fields) ==
    IF fields = <<>> THEN <<>>
    ELSE ChainMatch(items, Head(fields)) \o RunChain(items, Tail(fields))

\* generated ConditionItem(fields...): the predicates appended to result
RunConditionItem(frag, fields) == RunChain(frag.items, fields)

\* generated NqlNames(fields...): strings.Join(fields, ","), as its pieces
RECURSIVE Join(_, _)
Join(parts, sep) ==
    IF parts = <<>> THEN <<>>
    ELSE IF Len(parts) = 1 THEN <<Head(parts)>>
    ELSE <<Head(parts), sep>> \o Join(Tail(parts), sep)

RunNqlNames(frag, fields) == Join(fields, <<",">>)

\* generated NqlValues(fields...): values = values + "," + <value> in each
\* branch taken, then "return values[1:]", which panics on the empty string
RunNqlValues(frag, fields) ==
    LET taken == RunChain(frag.items, fields)
        values == Concat([i \in 1..Len(taken) |-> <<(<<",">>), taken[i]>>])
    IN IF taken = <<>> THEN [panic |-> TRUE, pieces |-> <<>>]
       ELSE [panic |-> FALSE, pieces |-> Tail(values)]

\* generated One(session, fields...) and List(..., fields...): the pieces of
\* the variable where that is spliced into the MATCH query; frag is the One or
\* List fragment, cond the ConditionItem fragment of the same struct
RunWhere(frag, cond, fields) ==
    IF Len(fields) > 0
    THEN <<frag.extra[1].key>>
         \o Join(RunConditionItem(cond, fields), frag.extra[1].val)
    ELSE <<>>

----------------------------------------------------------------------------
(* Vocabulary of the properties, stated on the input and on the output *)

\* the nodes the walk visits, file after file, files of an earlier run left out
RECURSIVE ScannedNodes(_)
ScannedNodes(syntax) ==
    IF syntax = <<>> THEN <<>>
    ELSE (IF Head(syntax).generated THEN <<>> ELSE Head(syntax).nodes)
         \o ScannedNodes(Tail(syntax))

IsStructDecl(node) == node.kind = "TypeSpec" /\ node.isStruct

IsMarker(field, sel) ==
    field.type.kind \in {"Selector", "StarSelector"} /\ field.type.name = sel

EmbedsTag(node) == \E i \in 1..Len(node.fields) : IsMarker(node.fields[i], "Tag")
EmbedsEdge(node) == \E i \in 1..Len(node.fields) : IsMarker(node.fields[i], "Edge")
IsPlainDecl(node) == IsStructDecl(node) /\ ~EmbedsTag(node) /\ ~EmbedsEdge(node)

DeclaresField(node, typeStr) ==
    \E i \in 1..Len(node.fields) :
        /\ node.fields[i].type.kind = "Ident"
        /\ node.fields[i].type.name = typeStr
        /\ node.fields[i].names # <<>>

NamesOf(nodes) == IF nodes = <<>> THEN <<>> ELSE [i \in 1..Len(nodes) |-> nodes[i].name]
KeysOf(items) == IF items = <<>> THEN <<>> ELSE [i \in 1..Len(items) |-> items[i].key]

\* the fragments of b generated for the struct named name
FragmentsOf(b, name) == {i \in 1..Len(b) : b[i].entity = name}

\* the entities of b in the order in which their first fragment was appended
RECURSIVE EntityOrder(_, _)
EntityOrder(b, seen) ==
    IF b = <<>> THEN <<>>
    ELSE IF Head(b).entity = NoEntity \/ Head(b).entity \in seen
         THEN EntityOrder(Tail(b), seen)
         ELSE <<Head(b).entity>> \o EntityOrder(Tail(b), seen \cup {Head(b).entity})

Emitted == pc \in {"format", "write", "done", "fatal"}

----------------------------------------------------------------------------
(* Properties *)

\* C1: a scanned struct that embeds neither the Tag nor the Edge marker has no
\* fragment in the output buffer: none of the per-entity templates is emitted
\* for it.
C1_PlainEntitiesInvisible ==
    \A i \in 1..Len(ScannedNodes(pkgSyntax)) :
        LET node == ScannedNodes(pkgSyntax)[i]
        IN IsPlainDecl(node) => FragmentsOf(buf, node.name) = {}

\* C2: the output file is written only after generate() has completed for all
\* files and all structs without a fatal error: a package with a function
\* without receiver or a struct field of an unsupported type (such as bool) is
\* never written, and what is written holds the complete templates of every
\* scanned struct followed by the package-level Create.
C2_WriteOnlyAfterCompleteGenerate ==
    outFile.written =>
        /\ pc = "done"
        /\ fileIdx = Len(files)
        /\ emitIdx = Len(Structs)
        /\ \A i \in 1..Len(ScannedNodes(pkgSyntax)) :
              LET node == ScannedNodes(pkgSyntax)[i]
              IN /\ ~(node.kind = "FuncDecl" /\ ~node.hasRecv)
                 /\ IsStructDecl(node) =>
                       /\ ~DeclaresField(node, "bool")
                       /\ \E j \in 1..Len(outFile.bytes) :
                             /\ outFile.bytes[j].entity = node.name
                             /\ outFile.bytes[j].op = "funcList"
        /\ \A j \in 1..Len(outFile.bytes) : outFile.bytes[j].layout # "truncated"
        /\ outFile.bytes # <<>>
        /\ outFile.bytes[Len(outFile.bytes)].op = "Create"

\* C2 witness: a struct with a bool field stopped the run in the middle of its
\* templates and no file is written.
C2_Witness ==
    /\ pc = "panic"
    /\ \E i \in 1..Len(Structs) : \E j \in 1..Len(Structs[i].fields) :
          Structs[i].fields[j].typeStr = "bool"
    /\ \E j \in 1..Len(buf) : buf[j].layout = "truncated"
    /\ ~outFile.written

\* C3: when format.Source fails, format() returns the buffer unchanged, a
\* warning is reported and the run goes on to write that text; when it succeeds
\* the formatted text is returned; what is written is what format() returned.
C3_FormatFailureStillWrites ==
    /\ fmtErr => pc \in {"write", "done", "fatal"}
    /\ pc \in {"write", "done", "fatal"} =>
          IF fmtErr
          THEN src = buf /\ warnings > 0
          ELSE /\ warnings = 0
               /\ Len(src) = Len(buf)
               /\ \A i \in 1..Len(buf) :
                     /\ src[i].layout = "gofmt"
                     /\ [src[i] EXCEPT !.layout = "raw"] = buf[i]
    /\ pc = "done" => outFile.written /\ outFile.bytes = src

\* C3 witness: formatting failed and the unformatted templates of a struct are
\* on disk.
C3_Witness ==
    /\ pc = "done"
    /\ fmtErr
    /\ warnings > 0
    /\ outFile.written
    /\ outFile.bytes = buf
    /\ \E j \in 1..Len(buf) : buf[j].op = "funcAllFields" /\ buf[j].layout = "raw"

\* C8: the package-level Create is the last fragment, emitted once, after the
\* templates of every struct; it calls Create on each Tag and Edge struct of the
\* package once and on no other, in file order and declaration order within a
\* file, which is the order of g.Structs and of the structs' fragments.
C8_CreateInExtractionOrder ==
    LET decls == SelectSeq(ScannedNodes(pkgSyntax), IsStructDecl)
        marked(node) == EmbedsTag(node) \/ EmbedsEdge(node)
        creates == {i \in 1..Len(buf) : buf[i].op = "Create"}
    IN IF Emitted
       THEN /\ creates = {Len(buf)}
            /\ KeysOf(buf[Len(buf)].items) = NamesOf(SelectSeq(decls, marked))
            /\ NamesOf(Structs) = NamesOf(decls)
            /\ EntityOrder(buf, {}) = NamesOf(decls)
       ELSE creates = {}

\* C8 witness: two files, a Tag in the first and an Edge in the second, and the
\* package-level Create calls them in that order.
C8_Witness ==
    /\ pc = "done"
    /\ Len(files) = 2
    /\ Len(Structs) = 2
    /\ Structs[1].isTag /\ Structs[2].isEdge
    /\ Len(files[1].structs) = 1 /\ Len(files[2].structs) = 1
    /\ KeysOf(buf[Len(buf)].items) = <<Structs[1].name, Structs[2].name>>

\* strings.TrimPrefix, the trimming the -trimprefix flag is documented to do
HasPrefix(str, prefix) ==
    Len(prefix) <= Len(str) /\ SubSeq(str, 1, Len(prefix)) = prefix

TrimPrefix(str, prefix) ==
    IF HasPrefix(str, prefix) THEN SubSeq(str, Len(prefix) + 1, Len(str)) ELSE str

ExternalName(declaredName) == ToLower(TrimPrefix(declaredName, trimPrefix))

\* C4: the external name of every extracted struct and of every extracted
\* field is lowercase(trimPrefix(declared name)) under the configured prefix,
\* and it is the name the TagName template returns.
C4_ExternalNameTrimsPrefix ==
    /\ \A i \in 1..Len(Structs) :
          /\ Structs[i].nickname = ExternalName(Structs[i].name)
          /\ \A j \in 1..Len(Structs[i].fields) :
                Structs[i].fields[j].nickname = ExternalName(Structs[i].fields[j].name)
    /\ \A k \in 1..Len(buf) :
          buf[k].op = "funcTagName" => buf[k].items[1].key = ExternalName(buf[k].entity)

\* the names a caller may request of a generated routine
ReqNames == {<<"t", "a">>, <<"i", "d">>, <<"z">>}
Requests == SeqsUpTo(ReqNames, MaxReq)

\* the fragment op emitted for the struct named name (there is one)
FragmentOf(b, op, name) ==
    b[CHOOSE i \in 1..Len(b) : b[i].op = op /\ b[i].entity = name]

HasFragment(b, op, name) == \E i \in 1..Len(b) : b[i].op = op /\ b[i].entity = name

\* C5: for every Tag struct the AllFieldsWithId list is the AllFields list with
\* "id" appended, and "id" is not in AllFields: no extracted field of a Tag
\* struct has the external name "id".
C5_IdReservedForVertex ==
    \A i \in 1..Len(Structs) :
        LET s == Structs[i]
        IN (s.isTag /\ HasFragment(buf, "funcAllFieldsWithId", s.name)) =>
              LET all == KeysOf(FragmentOf(buf, "funcAllFields", s.name).items)
                  withId == KeysOf(FragmentOf(buf, "funcAllFieldsWithId", s.name).items)
              IN /\ withId = Append(all, <<"i", "d">>)
                 /\ \A j \in 1..Len(all) : all[j] # <<"i", "d">>
                 /\ \A j \in 1..Len(s.fields) : s.fields[j].nickname # <<"i", "d">>

\* C6: the Create routine of a Tag struct holds, for each field with an idx
\* annotation and for no other, one statement CREATE TAG INDEX IF NOT EXISTS
\* idx_<field> ON <label>(<cols>), where <cols> is the field's own external
\* name when the annotation's value is empty and the annotation's value
\* otherwise.
C6_IndexColumns ==
    \A k \in 1..Len(buf) :
        buf[k].op = "CreateTag" =>
            LET node == CHOOSE n \in {ScannedNodes(pkgSyntax)[i] :
                                        i \in 1..Len(ScannedNodes(pkgSyntax))} :
                            IsStructDecl(n) /\ n.name = buf[k].entity
                hasIdx(field) ==
                    field.type.kind = "Ident" /\ field.hasTag /\ field.tag.hasIdx
                indexed == SelectSeq(node.fields, hasIdx)
            IN /\ Len(buf[k].extra) = Len(indexed)
               /\ \A i \in 1..Len(indexed) :
                     LET own == ToLower(indexed[i].names[1])
                     IN /\ buf[k].extra[i].key = <<"idx_">> \o own
                        /\ buf[k].extra[i].val =
                              IF indexed[i].tag.idx = <<>> THEN own
                              ELSE indexed[i].tag.idx

\* C7: for every Tag or Edge struct, the generated ConditionItem called with
\* "id" returns exactly one predicate, and it compares id(v), never the
\* property v.<label>.id.
C7_ConditionItemIdentity ==
    \A i \in 1..Len(Structs) :
        LET s == Structs[i]
        IN ((s.isTag \/ s.isEdge) /\ HasFragment(buf, "funcConditionItem", s.name)) =>
              LET result == RunConditionItem(FragmentOf(buf, "funcConditionItem", s.name),
                                             <<(<<"i", "d">>)>>)
              IN /\ Len(result) = 1
                 /\ result[1][1] = "id("
                 /\ \A j \in 1..Len(result) : result[j][1] # "\""

\* C9: when the scan is over, g.Structs holds exactly the scanned struct
\* declarations whose name is in the allow-list, in order (every struct
\* declaration when there is no allow-list): the bookkeeping of the allow-list
\* skips no listed declaration and admits no other.
C9_AllowListSelectsExactly ==
    LET listed(node) ==
            /\ IsStructDecl(node)
            /\ \/ typeNames = <<>>
               \/ \E i \in 1..Len(typeNames) : typeNames[i] = node.name
    IN (pc = "emit" \/ Emitted) =>
          Structs = [i \in 1..Len(SelectSeq(ScannedNodes(pkgSyntax), listed)) |->
                        newStruct(SelectSeq(ScannedNodes(pkgSyntax), listed)[i])]

\* C10: for every Tag or Edge struct (those with an Insert routine) and every
\* list of requested names, the generated NqlValues yields one
\* value per requested name, in the order of NqlNames, so both lists have the
\* same length; a requested name that matches no declared field is a fatal
\* error and is never skipped.
C10_NqlValuesAlignedOrFatal ==
    \A i \in 1..Len(Structs) :
        LET s == Structs[i]
        IN ((s.isTag \/ s.isEdge) /\ HasFragment(buf, "funcNqlNames", s.name)) =>
              \A fields \in Requests :
                  LET names == RunNqlNames(FragmentOf(buf, "funcNqlNames", s.name), fields)
                      values == RunNqlValues(FragmentOf(buf, "funcNqlValues", s.name), fields)
                      declared(f) == \E j \in 1..Len(s.fields) : s.fields[j].nickname = f
                  IN IF \A k \in 1..Len(fields) : declared(fields[k])
                     THEN fields # <<>> =>
                             /\ ~values.panic
                             /\ Len(values.pieces) = Len(names)
                     ELSE values.panic

\* the names requested of One and List
WhereRequests == SeqsUpTo(ReqNames \cup {<<"a", "g", "e">>}, MaxReq)

\* C11: in the generated One and List, the WHERE clause for one or more
\* requested names is " WHERE " followed by the ConditionItem predicates of
\* those names joined with AND; for no requested name there is no WHERE clause.
C11_WhereJoinedWithAnd ==
    \A i \in 1..Len(Structs) :
        LET s == Structs[i]
        IN ((s.isTag \/ s.isEdge) /\ HasFragment(buf, "funcList", s.name)) =>
              \A fields \in WhereRequests : \A op \in {"funcOne", "funcList"} :
                  LET cond == FragmentOf(buf, "funcConditionItem", s.name)
                      where == RunWhere(FragmentOf(buf, op, s.name), cond, fields)
                      preds == RunConditionItem(cond, fields)
                  IN where = IF fields = <<>> THEN <<>>
                             ELSE <<(<<" WHERE ">>)>> \o Join(preds, <<" AND ">>)


\* the selector of the last marker in the field list of node, <<>> when none
RECURSIVE LastMarker(_)
LastMarker(fields) ==
    IF fields = <<>> THEN <<>>
    ELSE LET last == fields[Len(fields)]
         IN IF IsMarker(last, "Tag") THEN <<"Tag">>
            ELSE IF IsMarker(last, "Edge") THEN <<"Edge">>
            ELSE LastMarker(SubSeq(fields, 1, Len(fields) - 1))

\* the fragments of b that define the routine method on the struct named name
RoutinesOf(b, method, name) == {i \in FragmentsOf(b, name) : b[i].method = method}

\* C12: every extracted struct has one kind only: it is never both a Tag and
\* an Edge; when its declaration embeds both markers the kind is that of the
\* marker last in field order; and the output never holds both the Tag and
\* the Edge variant of Create, Insert or RemoveById for it, nor both a
\* TagName and an EdgeName.
C12_ExactlyOneKind ==
    \A n \in 1..Len(ScannedNodes(pkgSyntax)) : \A i \in 1..Len(Structs) :
        LET node == ScannedNodes(pkgSyntax)[n]
            s == Structs[i]
        IN (IsStructDecl(node) /\ s.name = node.name) =>
              /\ ~(s.isTag /\ s.isEdge)
              /\ (EmbedsTag(node) /\ EmbedsEdge(node)) =>
                    /\ s.isTag <=> (LastMarker(node.fields) = <<"Tag">>)
                    /\ s.isEdge <=> (LastMarker(node.fields) = <<"Edge">>)
              /\ \A method \in {"Create", "Insert", "RemoveById"} :
                    Cardinality(RoutinesOf(buf, method, s.name)) <= 1
              /\ ~(HasFragment(buf, "funcTagName", s.name)
                   /\ HasFragment(buf, "funcEdgeName", s.name))


\* a declared field that is no marker and whose type is not one of the eight
\* types of the codec, whatever the shape of the type
IsUnsupportedDecl(field) ==
    /\ field.names # <<>>
    /\ ~IsMarker(field, "Tag") /\ ~IsMarker(field, "Edge")
    /\ ~(field.type.kind = "Ident" /\ field.type.name \in SupportedTypes)

\* the names of the fields retained for struct s
FieldNamesOf(s) == {s.fields[j].name : j \in 1..Len(s.fields)}

\* C13: every declared non-marker field of a scanned struct whose type is not
\* one of the eight supported types, of whatever shape, is retained in the
\* fields of the extracted struct, and a run over such a struct never gets
\* past the emission of the structs: it writes no output.
C13_UnsupportedRetainedAndFatal ==
    \A n \in 1..Len(ScannedNodes(pkgSyntax)) : \A i \in 1..Len(Structs) :
        LET node == ScannedNodes(pkgSyntax)[n]
            s == Structs[i]
        IN (IsStructDecl(node) /\ s.name = node.name) =>
              \A k \in 1..Len(node.fields) :
                  IsUnsupportedDecl(node.fields[k]) =>
                      /\ \A j \in 1..Len(node.fields[k].names) :
                            node.fields[k].names[j] \in FieldNamesOf(s)
                      /\ ~HasFragment(buf, "funcList", s.name)
                      /\ ~Emitted

====
